---- MODULE Spec2Model ----
(***************************************************************************)
(* Interactive Steel Selection Tool (src/app.py).                          *)
(*                                                                         *)
(* The Streamlit script is re-executed from top to bottom on every widget  *)
(* interaction.  What survives a rerun is the st.cache_data store of       *)
(* load_data, the three slider values and the value of the plotly_events   *)
(* component.  A DataFrame is a sequence of rows; a row is a record whose  *)
(* field "index" is the pandas index label and whose other fields are the  *)
(* columns.  Numbers are exact rationals [n, d]; the factor of safety is   *)
(* kept in tenths (the slider step is 0.1).                                *)
(***************************************************************************)
EXTENDS Integers, Sequences, FiniteSets, TLC

VARIABLES excel, cache, fos, required_yield, required_uts, df, selected_df,
          shown, table, selected_points, clicked, highlighted_row, outcome

vars == <<excel, cache, fos, required_yield, required_uts, df, selected_df,
          shown, table, selected_points, clicked, highlighted_row, outcome>>

----------------------------------------------------------------------------
(* Bounds of the model *)

MaxRecords == 3

(* the rows a sheet is made of: grades of equal and of different yield      *)
(* strength, one of them with its UTS below its yield strength              *)
YieldValues == {250, 500}

UTSValues == {400, 600}

RecordTypes == [Yield_Strength : YieldValues, UTS : UTSValues]

Datasets == UNION {[1..n -> RecordTypes] : n \in 1..MaxRecords}

(* Program constants *)

DensitySteel == 7850

FosMin == 12

FosMax == 30

FosDefault == 17

(* slider stops the model visits, in tenths; the slider has 19 of them *)
FosSliderStops == {f \in FosMin..FosMax : f \in {FosMin, FosDefault, FosMax}}

(* values the float sliders are moved to *)
YieldGrid == {250, 375, 500}

UTSGrid == {400, 500, 600}

(* inputs handed to the evaluation when it is driven as a function *)
AnyFos == {-10, 0, 5, 10} \cup FosSliderStops

AnyRequiredYield == {0, 600} \cup YieldGrid

AnyRequiredUTS == {0, 700} \cup UTSGrid

----------------------------------------------------------------------------
(* Floats as exact rationals [n, d] in lowest terms, d > 0, with the IEEE  *)
(* values that division produces beside them: the infinities [1, 0] and     *)
(* [-1, 0], the zeros [0, 1] and [0, -1], and NaN [0, 0]                    *)

Abs(a) == IF a < 0 THEN -a ELSE a

Sign(a) == IF a < 0 THEN -1 ELSE IF a = 0 THEN 0 ELSE 1

RECURSIVE GCD(_, _)
GCD(a, b) == IF b = 0 THEN a ELSE GCD(b, a % b)

Frac(n, d) ==
    IF d = 0 THEN [n |-> Sign(n), d |-> 0]
    ELSE IF n = 0 THEN [n |-> 0, d |-> Sign(d)]
    ELSE LET g == GCD(Abs(n), Abs(d))
             s == Sign(d)
         IN  [n |-> (s * n) \div g, d |-> (s * d) \div g]

(* the denominator to compare by: the two zeros are equal *)
Den(q) == IF q.n = 0 /\ q.d # 0 THEN 1 ELSE q.d

IsNaN(q) == q.n = 0 /\ q.d = 0

FracLT(a, b) == ~IsNaN(a) /\ ~IsNaN(b) /\ a.n * Den(b) < b.n * Den(a)

FracGE(a, b) == ~IsNaN(a) /\ ~IsNaN(b) /\ a.n * Den(b) >= b.n * Den(a)

(* x / q for an integer x and a rational q *)
DivByFrac(x, q) == Frac(x * q.d, q.n)

----------------------------------------------------------------------------
(* DataFrame helpers *)

(* df[name] = values : assignment of columns, overwriting existing ones *)
SetCols(row, cols) == cols @@ row

Positions(d) == 1..Len(d)

(* positions of the rows whose boolean mask column is true, in frame order *)
RECURSIVE MaskedPositions(_, _)
MaskedPositions(d, n) ==
    IF n = 0 THEN <<>>
    ELSE IF d[n].Selected THEN Append(MaskedPositions(d, n - 1), n)
         ELSE MaskedPositions(d, n - 1)

----------------------------------------------------------------------------
(* LOAD DATA *)

(* pd.read_excel: one row per sheet row, labelled by a RangeIndex from 0 *)
read_excel(x) ==
    [i \in 1..Len(x) |->
        [index |-> i - 1, Yield_Strength |-> x[i].Yield_Strength, UTS |-> x[i].UTS]]

(* the body of load_data *)
load_data_body(x) ==
    LET d == read_excel(x)
    IN  [i \in 1..Len(d) |-> SetCols(d[i], [Density |-> DensitySteel])]

(* st.cache_data: the body runs on a miss, and its value is stored *)
CacheStore(c, x) == IF c = <<>> THEN <<load_data_body(x)>> ELSE c

(* st.cache_data hands every caller its own copy of the stored value *)
CachedCopy(c) == c[1]

(* variant: the caller is handed the stored frame itself, so what the      *)
(* script writes to it is stored                                           *)
CacheAliased(c, d) == <<d>>

(* the store after a run that ended with frame d: d was a copy *)
CacheAfterScript(c, d) == c

(* DATA-BASED LIMITS *)

SeqMin(d, col) == CHOOSE v \in {d[i][col] : i \in Positions(d)} :
                      \A i \in Positions(d) : v <= d[i][col]

SeqMax(d, col) == CHOOSE v \in {d[i][col] : i \in Positions(d)} :
                      \A i \in Positions(d) : v >= d[i][col]

min_yield(d) == SeqMin(d, "Yield_Strength")

max_yield(d) == SeqMax(d, "Yield_Strength")

min_uts(d) == SeqMin(d, "UTS")

max_uts(d) == SeqMax(d, "UTS")

(* SIDEBAR INPUTS: the values the three sliders can be set to *)

FosSlider == FosSliderStops

RequiredYieldSlider(d) == {v \in YieldGrid : min_yield(d) <= v /\ v <= max_yield(d)}

RequiredUTSSlider(d) == {v \in UTSGrid : min_uts(d) <= v /\ v <= max_uts(d)}

(* required_yield / fos on Python floats raises ZeroDivisionError when fos is 0 *)
(* a division that yields inf or nan instead, as numpy's does *)
NeverRaises(f) == FALSE

DivisionRaises(f) == f = 0

(* variants: the slider's value= default kept as divisor; a product *)
allowable_stress_default(ry, f) == Frac(ry * 10, FosDefault)

allowable_stress_product(ry, f) == Frac(ry * f, 10)

(* line 64 *)
allowable_stress(ry, f) == Frac(ry * 10, f)

----------------------------------------------------------------------------
(* RULE-BASED FILTERING *)

(* variants: Selected without Safety_OK; the strength comparison reversed *)
RuleBasedFilteringNoSafety(d, ry, ru, allow) ==
    [i \in 1..Len(d) |->
        LET s == d[i].Yield_Strength >= ry
            u == d[i].UTS >= ru
            a == FracGE(Frac(d[i].Yield_Strength, 1), allow)
        IN  SetCols(d[i], [Strength_OK |-> s, UTS_OK |-> u, Safety_OK |-> a,
                           Selected |-> s /\ u])]

RuleBasedFilteringFlipped(d, ry, ru, allow) ==
    [i \in 1..Len(d) |->
        LET s == d[i].Yield_Strength <= ry
            u == d[i].UTS >= ru
            a == FracGE(Frac(d[i].Yield_Strength, 1), allow)
        IN  SetCols(d[i], [Strength_OK |-> s, UTS_OK |-> u, Safety_OK |-> a,
                           Selected |-> s /\ u /\ a])]

(* lines 86-90 *)
RuleBasedFiltering(d, ry, ru, allow) ==
    [i \in 1..Len(d) |->
        LET s == d[i].Yield_Strength >= ry
            u == d[i].UTS >= ru
            a == FracGE(Frac(d[i].Yield_Strength, 1), allow)
        IN  SetCols(d[i], [Strength_OK |-> s, UTS_OK |-> u, Safety_OK |-> a,
                           Selected |-> s /\ u /\ a])]

(* df[df["Selected"]].reset_index(drop=True) *)
Filtered(d) ==
    LET m == MaskedPositions(d, Len(d))
    IN  [j \in 1..Len(m) |-> SetCols(d[m[j]], [index |-> j - 1])]

(* ASHBY & MECHANICAL INDICES (FOR ALL DATA) *)

IndexCols(r, allow) ==
    [Ashby_Strength_Density |-> Frac(r.Yield_Strength, r.Density),
     Yield_to_UTS_Ratio     |-> Frac(r.Yield_Strength, r.UTS),
     Safety_Index           |-> DivByFrac(r.Yield_Strength, allow)]

(* variant: the indices computed for the admitted rows only *)
IndicesSelectedOnly(d, allow) ==
    [i \in 1..Len(d) |->
        IF d[i].Selected THEN SetCols(d[i], IndexCols(d[i], allow)) ELSE d[i]]

(* lines 96-98 *)
Indices(d, allow) ==
    [i \in 1..Len(d) |-> SetCols(d[i], IndexCols(d[i], allow))]

----------------------------------------------------------------------------
(* FILTERED DATA (FOR TABLE) *)

(* the order of by=[Ashby_Strength_Density, Yield_to_UTS_Ratio],            *)
(* ascending=[False, True]                                                  *)
Before(a, b) ==
    \/ FracLT(b.Ashby_Strength_Density, a.Ashby_Strength_Density)
    \/ /\ ~FracLT(a.Ashby_Strength_Density, b.Ashby_Strength_Density)
       /\ FracLT(a.Yield_to_UTS_Ratio, b.Yield_to_UTS_Ratio)

(* r goes in front of the first row it is strictly before *)
InsertStable(s, r) ==
    LET k == CHOOSE k \in 1..(Len(s) + 1) :
                 /\ k = Len(s) + 1 \/ Before(r, s[k])
                 /\ \A j \in 1..(k - 1) : ~Before(r, s[j])
    IN  SubSeq(s, 1, k - 1) \o <<r>> \o SubSeq(s, k, Len(s))

(* r goes in front of the first row it is not after *)
InsertEager(s, r) ==
    LET k == CHOOSE k \in 1..(Len(s) + 1) :
                 /\ k = Len(s) + 1 \/ ~Before(s[k], r)
                 /\ \A j \in 1..(k - 1) : Before(s[j], r)
    IN  SubSeq(s, 1, k - 1) \o <<r>> \o SubSeq(s, k, Len(s))

RECURSIVE SortEagerUpTo(_, _)
SortEagerUpTo(d, n) ==
    IF n = 0 THEN <<>> ELSE InsertEager(SortEagerUpTo(d, n - 1), d[n])

RECURSIVE SortUpTo(_, _)
SortUpTo(d, n) ==
    IF n = 0 THEN <<>> ELSE InsertStable(SortUpTo(d, n - 1), d[n])

(* variant: a sort that does not keep the order of equal rows *)
sort_values_unstable(d) == SortEagerUpTo(d, Len(d))

(* DataFrame.sort_values on two keys is a lexsort, which is stable; the rows *)
(* keep their index labels                                                   *)
sort_values(d) == SortUpTo(d, Len(d))

----------------------------------------------------------------------------
(* INTERACTIVE ASHBY PLOT (ALL DATA) *)

(* px.scatter(df, color="Selected"): one trace per value of Selected, in the *)
(* order the values first appear; a point is the (pointIndex)-th row of its  *)
(* trace                                                                     *)
CurveNumber(d, p) == IF d[p].Selected = d[1].Selected THEN 0 ELSE 1

PointIndex(d, p) ==
    Cardinality({q \in 1..(p - 1) : d[q].Selected = d[p].Selected})

(* what plotly_events returns when the point drawn for row p is clicked *)
ClickEvent(d, p) ==
    <<[curveNumber |-> CurveNumber(d, p), pointIndex |-> PointIndex(d, p)]>>

(* the figure's data: the component is mounted anew when it changes *)
Figure(d) ==
    [i \in 1..Len(d) |->
        [x |-> d[i].Ashby_Strength_Density, y |-> d[i].Yield_to_UTS_Ratio,
         color |-> d[i].Selected,
         hover |-> <<d[i].Yield_Strength, d[i].UTS, d[i].Safety_Index>>]]

(* HIGHLIGHT CLICKED POINT: df.iloc[[idx]] *)
Highlight(d, pts) ==
    IF pts = <<>> THEN <<>> ELSE <<d[pts[1].pointIndex + 1]>>

----------------------------------------------------------------------------------------------------------------------------------------
(* One execution of the script, top to bottom, with slider values f, ry, ru *)

Script(c, x, f, ry, ru) ==
    LET c1  == CacheStore(c, x)
        df0 == CachedCopy(c1)
    IN  IF DivisionRaises(f)
        THEN [cache |-> CacheAfterScript(c1, df0), df |-> df0, selected_df |-> <<>>,
              shown |-> "exception", table |-> <<>>, outcome |-> "ZeroDivisionError"]
        ELSE LET allow == allowable_stress(ry, f)
                 df1   == RuleBasedFiltering(df0, ry, ru, allow)
                 df2   == Indices(df1, allow)
                 sel   == Filtered(df2)
             IN  [cache |-> CacheAfterScript(c1, df2), df |-> df2, selected_df |-> sel,
                  shown |-> IF sel = <<>> THEN "warning" ELSE "table",
                  table |-> IF sel = <<>> THEN <<>> ELSE sort_values(sel),
                  outcome |-> "ok"]

(* the session after the run r, the plotly_events component returning pts,  *)
(* the user having clicked the point drawn for row p (0: none)              *)
Rerun(r, f, ry, ru, pts, p) ==
    /\ cache' = r.cache
    /\ fos' = f
    /\ required_yield' = ry
    /\ required_uts' = ru
    /\ df' = r.df
    /\ selected_df' = r.selected_df
    /\ shown' = r.shown
    /\ table' = r.table
    /\ selected_points' = IF r.outcome = "ok" THEN pts ELSE <<>>
    /\ clicked' = IF r.outcome = "ok" /\ pts # <<>> THEN p ELSE 0
    /\ highlighted_row' = IF r.outcome = "ok" THEN Highlight(r.df, pts) ELSE <<>>
    /\ outcome' = r.outcome
    /\ UNCHANGED excel

(* the session once the script has run for the first time, the sliders at   *)
(* their value= defaults                                                    *)
Init ==
    /\ excel \in Datasets
    /\ fos = FosDefault
    /\ required_yield = min_yield(load_data_body(excel))
    /\ required_uts = min_uts(load_data_body(excel))
    /\ \E r \in {Script(<<>>, excel, fos, required_yield, required_uts)} :
           /\ cache = r.cache
           /\ df = r.df
           /\ selected_df = r.selected_df
           /\ shown = r.shown
           /\ table = r.table
           /\ outcome = r.outcome
    /\ selected_points = <<>>
    /\ clicked = 0
    /\ highlighted_row = <<>>

(* a slider was moved: the click survives only if the figure is unchanged *)
SliderMoved(f, ry, ru) ==
    \E r \in {Script(cache, excel, f, ry, ru)} :
        IF r.outcome = "ok" /\ outcome = "ok" /\ Figure(r.df) = Figure(df)
        THEN Rerun(r, f, ry, ru, selected_points, clicked)
        ELSE Rerun(r, f, ry, ru, <<>>, 0)

MoveFos ==
    \E f \in FosSlider \ {fos} : SliderMoved(f, required_yield, required_uts)

MoveRequiredYield ==
    \E v \in RequiredYieldSlider(df) \ {required_yield} :
        SliderMoved(fos, v, required_uts)

MoveRequiredUTS ==
    \E v \in RequiredUTSSlider(df) \ {required_uts} :
        SliderMoved(fos, required_yield, v)

(* the user clicks the point drawn for row p of the plotted frame *)
ClickPoint ==
    /\ outcome = "ok"
    /\ \E p \in Positions(df) :
           \E r \in {Script(cache, excel, fos, required_yield, required_uts)} :
               Rerun(r, fos, required_yield, required_uts, ClickEvent(df, p), p)

Next == MoveFos \/ MoveRequiredYield \/ MoveRequiredUTS \/ ClickPoint

Spec == Init /\ [][Next]_vars

----------------------------------------------------------------------------
(* The evaluation as a function of arbitrary inputs: the records are loaded *)
(* (line 25), the three values are given, and lines 64-119 are about to run *)

InitEngine ==
    /\ excel \in Datasets
    /\ fos \in AnyFos
    /\ required_yield \in AnyRequiredYield
    /\ required_uts \in AnyRequiredUTS
    /\ cache = CacheStore(<<>>, excel)
    /\ df = CachedCopy(cache)
    /\ selected_df = <<>>
    /\ shown = "nothing"
    /\ table = <<>>
    /\ selected_points = <<>>
    /\ clicked = 0
    /\ highlighted_row = <<>>
    /\ outcome = "pending"

Evaluate ==
    /\ outcome = "pending"
    /\ \E r \in {Script(cache, excel, fos, required_yield, required_uts)} :
           Rerun(r, fos, required_yield, required_uts, <<>>, 0)

NextEngine == Evaluate

SpecEngine == InitEngine /\ [][NextEngine]_vars

----------------------------------------------------------------------------
(* What the claims are stated in: the sheet, the three inputs, and plain    *)
(* integer arithmetic on them                                               *)

BaseColumns == {"index", "Yield_Strength", "UTS", "Density"}

DerivedColumns ==
    {"Strength_OK", "UTS_OK", "Safety_OK", "Selected",
     "Ashby_Strength_Density", "Yield_to_UTS_Ratio", "Safety_Index"}

Evaluated == outcome = "ok"

(* ys >= ry / (f / 10), f # 0 *)
MeetsAllowable(ys, ry, f) ==
    \/ f > 0 /\ ys * f >= ry * 10
    \/ f < 0 /\ ys * f <= ry * 10

ShouldAdmit(i) ==
    /\ excel[i].Yield_Strength >= required_yield
    /\ excel[i].UTS >= required_uts
    /\ MeetsAllowable(excel[i].Yield_Strength, required_yield, fos)

AdmittedIds == {i \in 1..Len(excel) : ShouldAdmit(i)}

(* the rational q is n / d, d > 0 *)
IsQuotient(q, n, d) == q.d > 0 /\ q.n * d = n * q.d

(* the same record, whatever label it carries *)
SameRecord(a, b) == [a EXCEPT !.index = 0] = [b EXCEPT !.index = 0]

(* the position in frame d of its j-th row flagged Selected *)
NthSelected(d, j) ==
    CHOOSE i \in Positions(d) :
        d[i].Selected /\ Cardinality({q \in 1..(i - 1) : d[q].Selected}) = j - 1

(* the record of the sheet a row of the admitted view was taken from *)
Origin(r) == NthSelected(df, r.index + 1)

HigherAshby(a, b) == a.Yield_Strength * b.Density > b.Yield_Strength * a.Density

LowerRatio(a, b) == a.Yield_Strength * b.UTS < b.Yield_Strength * a.UTS

TiedOnBothKeys(a, b) ==
    ~HigherAshby(a, b) /\ ~HigherAshby(b, a) /\ ~LowerRatio(a, b) /\ ~LowerRatio(b, a)

----------------------------------------------------------------------------
(* C1: with factorOfSafety # 0, a record is flagged Selected exactly when   *)
(* yieldStrength >= requiredYield, uts >= requiredUTS and yieldStrength >=  *)
(* requiredYield / factorOfSafety; the admitted view holds exactly the      *)
(* flagged records, in sheet order, and the table holds the same rows.      *)
C1_AdmissionRule ==
    Evaluated =>
        /\ Len(df) = Len(excel)
        /\ \A i \in Positions(df) : df[i].Selected <=> ShouldAdmit(i)
        /\ Len(selected_df) = Cardinality(AdmittedIds)
        /\ \A j \in Positions(selected_df) :
               \E i \in AdmittedIds :
                   /\ Cardinality({q \in AdmittedIds : q < i}) = j - 1
                   /\ SameRecord(selected_df[j], df[i])
        /\ shown = "table" =>
               /\ Len(table) = Len(selected_df)
               /\ {table[j] : j \in Positions(table)}
                      = {selected_df[j] : j \in Positions(selected_df)}

(* some record is admitted, and one that passes both strength checks is     *)
(* kept out by the safety check alone                                       *)
C1_Witness ==
    /\ Evaluated
    /\ \E i \in Positions(df) : df[i].Selected
    /\ \E i \in Positions(df) :
           df[i].Strength_OK /\ df[i].UTS_OK /\ ~df[i].Safety_OK /\ ~df[i].Selected

(* C2: in the table, a row of higher ashbyIndex comes first; of equal       *)
(* ashbyIndex, the one of lower yieldToUTSRatio; rows equal on both keys    *)
(* keep the order their records have in the sheet.                          *)
C2_SortOrder ==
    shown = "table" =>
        \A p, q \in Positions(table) :
            p < q =>
                /\ SameRecord(table[p], df[Origin(table[p])])
                /\ SameRecord(table[q], df[Origin(table[q])])
                /\ ~HigherAshby(table[q], table[p])
                /\ ~HigherAshby(table[p], table[q]) => ~LowerRatio(table[q], table[p])
                /\ TiedOnBothKeys(table[p], table[q])
                       => Origin(table[p]) < Origin(table[q])

(* the table holds two rows tied on both keys, and a row that the sort has  *)
(* moved in front of one that precedes it in the sheet                      *)
C2_Witness ==
    /\ shown = "table"
    /\ \E p, q \in Positions(table) : p < q /\ TiedOnBothKeys(table[p], table[q])
    /\ \E p, q \in Positions(table) : p < q /\ Origin(table[p]) > Origin(table[q])

(* C3: the row highlighted after a click is the row of the clicked point.   *)
C3_ClickHighlightsClicked ==
    clicked # 0 => highlighted_row = <<df[clicked]>>

(* C4: a row of the admitted view carries the id its record has in the full *)
(* frame, which is the one given at load time.                              *)
C4_IdStable ==
    Evaluated =>
        /\ \A i \in Positions(df) : df[i].index = i - 1
        /\ \A j \in Positions(selected_df) :
               selected_df[j].index = df[NthSelected(df, j)].index
        /\ \A j \in Positions(table) :
               \E i \in Positions(df) :
                   df[i].Selected /\ table[j] = df[i]

(* C5: with factorOfSafety = 0 the evaluation ends in the division's error; *)
(* no flag, index, admitted view or table exists.                           *)
C5_ZeroFosFails ==
    (fos = 0 /\ outcome # "pending") =>
        /\ outcome = "ZeroDivisionError"
        /\ shown = "exception"
        /\ selected_df = <<>>
        /\ table = <<>>
        /\ \A i \in Positions(df) : DOMAIN df[i] \cap DerivedColumns = {}

C5_Witness ==
    /\ fos = 0
    /\ outcome = "ZeroDivisionError"
    /\ Len(df) >= 2
    /\ required_yield > 0

(* the records the rules flag under other requirements, all else as it is *)
AdmittedUnder(ry, ru) ==
    LET d == RuleBasedFiltering(CachedCopy(cache), ry, ru, allowable_stress(ry, fos))
    IN  {i \in Positions(d) : d[i].Selected}

AdmittedNow == {i \in Positions(df) : df[i].Selected}

(* C6: raising requiredYield alone, or requiredUTS alone, never admits a    *)
(* record that was not admitted before.                                     *)
C6_Monotone ==
    Evaluated =>
        /\ \A ry \in AnyRequiredYield :
               ry >= required_yield => AdmittedUnder(ry, required_uts) \subseteq AdmittedNow
        /\ \A ru \in AnyRequiredUTS :
               ru >= required_uts => AdmittedUnder(required_yield, ru) \subseteq AdmittedNow

(* a higher requiredYield and a higher requiredUTS each leave some but not  *)
(* all of the admitted records                                              *)
C6_Witness ==
    /\ Evaluated
    /\ \E ry \in AnyRequiredYield :
           /\ ry > required_yield
           /\ AdmittedUnder(ry, required_uts) # {}
           /\ AdmittedUnder(ry, required_uts) # AdmittedNow
    /\ \E ru \in AnyRequiredUTS :
           /\ ru > required_uts
           /\ AdmittedUnder(required_yield, ru) # {}
           /\ AdmittedUnder(required_yield, ru) # AdmittedNow

(* the frame load_data returns for the sheet *)
AsLoaded ==
    [i \in 1..Len(excel) |->
        [index |-> i - 1, Yield_Strength |-> excel[i].Yield_Strength,
         UTS |-> excel[i].UTS, Density |-> 7850]]

Outranks(a, b) ==
    \/ HigherAshby(AsLoaded[a], AsLoaded[b])
    \/ /\ ~HigherAshby(AsLoaded[b], AsLoaded[a])
       /\ \/ LowerRatio(AsLoaded[a], AsLoaded[b])
          \/ ~LowerRatio(AsLoaded[b], AsLoaded[a]) /\ a < b

Rank(i) == 1 + Cardinality({q \in AdmittedIds : Outranks(q, i)})

(* C8: whatever was evaluated before, every flag and index of every record  *)
(* and the order of the table are those of the sheet under the latest three *)
(* inputs.                                                                  *)
C8_FreshEvaluation ==
    Evaluated =>
        /\ Len(df) = Len(excel)
        /\ \A i \in Positions(df) :
               LET ys == excel[i].Yield_Strength
                   ut == excel[i].UTS
               IN  /\ df[i].Strength_OK = (ys >= required_yield)
                   /\ df[i].UTS_OK = (ut >= required_uts)
                   /\ df[i].Safety_OK = MeetsAllowable(ys, required_yield, fos)
                   /\ df[i].Selected = ShouldAdmit(i)
                   /\ IsQuotient(df[i].Ashby_Strength_Density, ys, 7850)
                   /\ IsQuotient(df[i].Yield_to_UTS_Ratio, ys, ut)
                   /\ IsQuotient(df[i].Safety_Index, ys * fos, required_yield * 10)
        /\ Len(table) = IF shown = "table" THEN Cardinality(AdmittedIds) ELSE 0
        /\ shown = "table" =>
               \A i \in AdmittedIds : SameRecord(table[Rank(i)], df[i])

(* all three sliders are off their defaults, and the table ranks at least   *)
(* two admitted records while another is left out                           *)
C8_Witness ==
    /\ Evaluated
    /\ fos # FosDefault
    /\ required_yield # min_yield(df)
    /\ required_uts # min_uts(df)
    /\ shown = "table"
    /\ Len(table) >= 2
    /\ Len(table) < Len(df)

(* C9: with factorOfSafety # 0 the full frame holds every record once, in   *)
(* sheet order, flagged and with its three indices, admitted or not; when   *)
(* none is admitted the run still completes, the admitted view is empty,    *)
(* every flag is false and the warning stands in for the table.             *)
C9_AllRecordsEnriched ==
    (fos # 0 /\ outcome # "pending") =>
        /\ outcome = "ok"
        /\ Len(df) = Len(excel)
        /\ \A i \in Positions(df) :
               /\ DOMAIN df[i] = BaseColumns \cup DerivedColumns
               /\ [c \in BaseColumns |-> df[i][c]] = AsLoaded[i]
               /\ df[i].Selected = ShouldAdmit(i)
               /\ IsQuotient(df[i].Ashby_Strength_Density, excel[i].Yield_Strength, 7850)
               /\ IsQuotient(df[i].Yield_to_UTS_Ratio, excel[i].Yield_Strength, excel[i].UTS)
               /\ required_yield # 0 =>
                      IsQuotient(df[i].Safety_Index,
                                 excel[i].Yield_Strength * fos, required_yield * 10)
               /\ required_yield = 0 =>
                      df[i].Safety_Index = [n |-> Sign(fos), d |-> 0]
        /\ AdmittedIds = {} =>
               /\ selected_df = <<>>
               /\ table = <<>>
               /\ shown = "warning"
               /\ \A i \in Positions(df) : ~df[i].Selected
        /\ AdmittedIds # {} => shown = "table"

(* no record of a sheet of several is admitted *)
C9_Witness ==
    /\ Evaluated
    /\ Len(df) >= 2
    /\ AdmittedIds = {}
    /\ shown = "warning"

(* C10: with factorOfSafety within the slider's range and requiredYield >=  *)
(* 0, a record that passes the strength check passes the safety check, so   *)
(* Selected is Strength_OK and UTS_OK; the safety check keeps out a record  *)
(* that passes the other two only when factorOfSafety < 1.                  *)
C10_SafetyRedundant ==
    Evaluated =>
        /\ (FosMin <= fos /\ fos <= FosMax /\ required_yield >= 0) =>
               \A i \in Positions(df) :
                   /\ df[i].Strength_OK => df[i].Safety_OK
                   /\ df[i].Selected = (df[i].Strength_OK /\ df[i].UTS_OK)
        /\ (\E i \in Positions(df) :
                df[i].Strength_OK /\ df[i].UTS_OK /\ ~df[i].Selected) => fos < 10

(* within the slider's range one record passes the strength check and       *)
(* another fails it while passing the safety check                          *)
C10_Witness ==
    /\ Evaluated
    /\ FosMin <= fos /\ fos <= FosMax
    /\ \E i \in Positions(df) : df[i].Strength_OK /\ df[i].Safety_OK
    /\ \E i \in Positions(df) : ~df[i].Strength_OK /\ df[i].Safety_OK

====
